---- MODULE Spec2Model ----
(***************************************************************************)
(* A model of bfc.c, the optimizing bytecode compiler and interpreter for  *)
(* BF: lex, parse, compile (lowering), optimize, and the machine run(),    *)
(* driven by main().                                                       *)
(*                                                                         *)
(* Every loop of the program advances one iteration per action, and every  *)
(* getc/getchar draws the next item of the input stream from what the      *)
(* environment of the run (its scenario) can deliver.                      *)
(*                                                                         *)
(* C arrays are sequences; the C index i is the sequence index i + 1.      *)
(* Buffers keep their sentinels: tokens ends with NUL, ast with NUM_OPS,   *)
(* bytecode and optimized with the instruction (NUM_OPS, 0).               *)
(* Plain char is the signed 8-bit type of the x86-64 gcc build the         *)
(* Makefile produces; tape cells hold -128..127 and are written to stdout  *)
(* as unsigned bytes.                                                      *)
(***************************************************************************)
EXTENDS Integers, Sequences, FiniteSets, TLC

VARIABLES
    scenario,    \* which family of input streams the environment delivers
    cap,         \* TAPELEN of this build
    stdin,       \* the input stream: [data |-> the items read so far,
                 \*                    eof |-> stdio's end-of-file indicator]
    pc,          \* the statement the process is at
    frame,       \* the local variables of the function being executed
    stat,        \* main(): int stat
    tokens,      \* main(): char tokens[TAPELEN]
    ast,         \* main(): Opcode ast[TAPELEN]
    bytecode,    \* main(): Instruction bytecode[TAPELEN]
    optimized,   \* main(): Instruction optimized[TAPELEN]
    data,        \* run(): char data[TAPELEN]
    stdout,      \* the bytes written by putchar
    stderr,      \* the texts written by fputs(msg, stderr)
    exitStatus,  \* <<>> while the process lives, <<code>> once it has exited
    ran          \* the functions main() has called so far, in order

vars == <<scenario, cap, stdin, pc, frame, stat, tokens, ast, bytecode,
          optimized, data, stdout, stderr, exitStatus, ran>>

(***************************************************************************)
(* Program constants.                                                      *)
(***************************************************************************)
SUCCESS == 0
FAILURE == 1

OP_ADD == 0
OP_SUB == 1
OP_INC == 2
OP_DEC == 3
OP_PUT == 4
OP_GET == 5
OP_JMP == 6
OP_JNE == 7
NUM_OPS == 8

\* stdio's EOF; as an item of an input stream, an end-of-stream condition
EOF == -1
\* '\0'
NUL == 0
\* the command characters '+' '-' '>' '<' '.' ',' '[' ']'
CH_ADD == 43
CH_SUB == 45
CH_INC == 62
CH_DEC == 60
CH_PUT == 46
CH_GET == 44
CH_JMP == 91
CH_JNE == 93

Commands == {CH_ADD, CH_SUB, CH_INC, CH_DEC, CH_PUT, CH_GET, CH_JMP, CH_JNE}

Instr(op, arg) == [op |-> op, arg |-> arg]

\* arr[idx] = v on a buffer filled from index 0 upwards
Store(arr, idx, v) ==
    IF idx < Len(arr) THEN [arr EXCEPT ![idx + 1] = v] ELSE Append(arr, v)

Range(s) == {s[i] : i \in 1..Len(s)}

Repeat(x, n) == [i \in 1..n |-> x]

(***************************************************************************)
(* Conversions between int, char and unsigned char.                        *)
(***************************************************************************)
\* (char) i : the low 8 bits of i read as a signed char
ToChar(i) == ((i + 128) % 256) - 128

\* (unsigned char) c : what putchar writes
ToByte(c) == c % 256

(***************************************************************************)
(* The environment: what the input stream can deliver, by scenario.        *)
(***************************************************************************)
\* "small": TAPELEN is CapSmall and the stream is any sequence of at most
\* MaxStream items among five commands, the byte 'A', the byte 0xFF and
\* end-of-stream conditions (after which more input may still arrive)
CapSmall == 4
MaxStream == 4

SmallAlphabet == {CH_ADD, CH_GET, CH_PUT, CH_JMP, CH_JNE, 65, 255, EOF}

\* "source": the stream is a source of at most MaxSource commands among
\* '+' '>' '[' ']', then the end of the stream; the buffers hold it all
CapSource == 9
MaxSource == 6

SourceAlphabet == {CH_ADD, CH_INC, CH_JMP, CH_JNE}

\* "loop": the source "++++++++[>++++++++<-]>.", as it is or with one
\* comment byte (a newline or 'A') somewhere in it
CapLoop == 26

LoopSource ==
    Repeat(CH_ADD, 8) \o <<CH_JMP, CH_INC>> \o Repeat(CH_ADD, 8)
        \o <<CH_DEC, CH_SUB, CH_JNE, CH_INC, CH_PUT>>

InsertAt(s, k, x) == SubSeq(s, 1, k) \o <<x>> \o SubSeq(s, k + 1, Len(s))

LoopStreams ==
    {LoopSource \o <<EOF>>} \cup
    {InsertAt(LoopSource, k, x) \o <<EOF>> :
        k \in 0..Len(LoopSource), x \in {10, 65}}

\* the most bytes the model lets a run write to stdout
MaxOut == 3

\* "arith": an optional ',' (which reads one byte, any of 0..255, that
\* arrives after the source has ended), then n times '+' or n times '-',
\* then "[>]", which leaves dp at 1 exactly when the cell is not zero
CapArith == 264

ArithCounts == {1, 2, 127, 128, 255, 256, 257}

ArithSource(read, ch, n) ==
    (IF read THEN <<CH_GET>> ELSE <<>>) \o Repeat(ch, n)
        \o <<CH_JMP, CH_INC, CH_JNE>>

ArithStreams ==
    {ArithSource(read, ch, n) \o <<EOF>> :
        read \in BOOLEAN, ch \in {CH_ADD, CH_SUB}, n \in ArithCounts}

\* "input": the source is n times ',' (1 <= n <= MaxGet), alone or followed
\* by "." or ".."; after it has ended, at most MaxGet more items arrive, each a byte
\* of InputBytes or an end-of-stream condition
CapInput == 7
MaxGet == 3

InputBytes == {0, 65, 255}

InputSources ==
    {Repeat(CH_GET, n) \o tail :
        n \in 1..MaxGet, tail \in {<<>>, <<CH_PUT>>, <<CH_PUT, CH_PUT>>}}

InputStreams == {src \o <<EOF>> : src \in InputSources}

\* "pointer": the source is at most MaxMoves commands among '<' '>' '+',
\* then the end of the stream
CapPointer == 6
MaxMoves == 4

PointerAlphabet == {CH_DEC, CH_INC, CH_ADD}

\* the number of items of h up to its first end-of-stream condition
SourceEnd(h) ==
    CHOOSE i \in 1..Len(h) :
        h[i] = EOF /\ EOF \notin Range(SubSeq(h, 1, i - 1))

Scenarios == {"small", "source", "loop", "arith", "input", "pointer"}

Capacity(scn) ==
    CASE scn = "small" -> CapSmall
      [] scn = "source" -> CapSource
      [] scn = "loop" -> CapLoop
      [] scn = "arith" -> CapArith
      [] scn = "input" -> CapInput
      [] scn = "pointer" -> CapPointer

\* the items that can follow the prefix h in a stream of S
Continuations(S, h) ==
    {t[Len(h) + 1] : t \in {u \in S : /\ Len(u) > Len(h)
                                     /\ SubSeq(u, 1, Len(h)) = h}}

\* the items the stream can deliver after the items h; none: it is over
NextItems(scn, h) ==
    CASE scn = "small" ->
         IF Len(h) < MaxStream THEN SmallAlphabet ELSE {}
      [] scn = "source" ->
         IF EOF \in Range(h) THEN {}
         ELSE IF Len(h) < MaxSource THEN SourceAlphabet \cup {EOF}
         ELSE {EOF}
      [] scn = "loop" -> Continuations(LoopStreams, h)
      [] scn = "arith" ->
         IF EOF \notin Range(h) THEN Continuations(ArithStreams, h)
         ELSE IF h[Len(h)] = EOF /\ h[1] = CH_GET THEN 0..255
         ELSE {}
      [] scn = "input" ->
         IF EOF \notin Range(h) THEN Continuations(InputStreams, h)
         ELSE IF Len(h) < SourceEnd(h) + MaxGet THEN InputBytes \cup {EOF}
         ELSE {}
      [] scn = "pointer" ->
         IF EOF \in Range(h) THEN {}
         ELSE IF Len(h) < MaxMoves THEN PointerAlphabet \cup {EOF}
         ELSE {EOF}

(***************************************************************************)
(* stdio on the shared stream.  A read on a stream that is over, or whose  *)
(* end-of-file indicator is set, returns EOF.                              *)
(***************************************************************************)
\* the possible outcomes [c, f] of getc(stdin) / getchar()
getc(scn, f) ==
    IF f.eof
    THEN {[c |-> EOF, f |-> f]}
    ELSE IF NextItems(scn, f.data) = {}
    THEN {[c |-> EOF, f |-> [f EXCEPT !.eof = TRUE]]}
    ELSE {[c |-> x, f |-> [data |-> Append(f.data, x), eof |-> (x = EOF)]] :
             x \in NextItems(scn, f.data)}

clearerr(f) == [f EXCEPT !.eof = FALSE]

(***************************************************************************)
(* main: quit and the checks of stat                                       *)
(***************************************************************************)
\* the string literal main() passes to quit() when the stage fails: its
\* text and the number of '\n' that end it
QuitText(stage) ==
    CASE stage = "lex" ->
         [text |-> "ERROR: Program exceeds available memory", newlines |-> 1]
      [] stage = "parse" ->
         [text |-> "SYNTAX ERROR: Unmatched '[' or ']'", newlines |-> 1]
      [] stage = "compile" ->
         [text |-> "ERROR: Compilation failed", newlines |-> 0]
      [] stage = "optimize" ->
         [text |-> "ERROR: Optimization failed", newlines |-> 0]

\* a quit that would exit with status 0: what C8 must tell from quit
quitStatusZero(msg) ==
    /\ stderr' = Append(stderr, msg)
    /\ exitStatus' = <<0>>
    /\ pc' = "exited"

\* fputs(msg, stderr); exit(1);
quit(msg) ==
    /\ stderr' = Append(stderr, msg)
    /\ exitStatus' = <<1>>
    /\ pc' = "exited"

\* if (stat != SUCCESS)
Failed(s) == s # SUCCESS

(***************************************************************************)
(* lex                                                                     *)
(***************************************************************************)
\* while (cur != EOF)
LexAtEnd(cur) == cur = EOF

\* a capacity test one token later: what C3 must tell from lex's test
LexOverflowOffByOne(capacity, count) == count > capacity - 2

\* a capacity test without the margin: what C19 must tell from lex's test
LexOverflowNoMargin(capacity, count) == count >= capacity

\* if (count >= TAPELEN - 2) return FAILURE;
LexOverflow(capacity, count) == count >= capacity - 2

\* the case labels of lex's switch
IsCommand(cur) == cur \in Commands

\* main() calls lex(stdin, tokens): int count = 0; char cur = getc(input);
LexCall ==
    /\ pc = "lex_call"
    /\ \E r \in getc(scenario, stdin) :
          /\ stdin' = r.f
          /\ frame' = [count |-> 0, cur |-> ToChar(r.c)]
    /\ pc' = "lex"
    /\ ran' = Append(ran, "lex")
    /\ UNCHANGED <<scenario, cap, stat, tokens, ast, bytecode, optimized, data,
                   stdout, stderr, exitStatus>>

\* one test of lex's while loop: an iteration, or one of the two returns
LexLoop ==
    /\ pc = "lex"
    /\ IF LexAtEnd(frame.cur)
       THEN /\ tokens' = Store(tokens, frame.count, NUL)
            /\ stat' = SUCCESS
            /\ pc' = "lex_ret"
            /\ UNCHANGED <<stdin, frame>>
       ELSE IF LexOverflow(cap, frame.count)
       THEN /\ stat' = FAILURE
            /\ pc' = "lex_ret"
            /\ UNCHANGED <<stdin, frame, tokens>>
       ELSE /\ \E r \in getc(scenario, stdin) :
                  /\ stdin' = r.f
                  /\ frame' = [count |-> IF IsCommand(frame.cur)
                                         THEN frame.count + 1
                                         ELSE frame.count,
                               cur |-> ToChar(r.c)]
            /\ tokens' = IF IsCommand(frame.cur)
                         THEN Store(tokens, frame.count, frame.cur)
                         ELSE tokens
            /\ UNCHANGED <<stat, pc>>
    /\ UNCHANGED <<scenario, cap, ast, bytecode, optimized, data, stdout,
                   stderr, exitStatus, ran>>

\* if (stat != SUCCESS) quit(...); stat = parse(tokens, ast);
CheckLex ==
    /\ pc = "lex_ret"
    /\ IF Failed(stat)
       THEN quit(QuitText("lex")) /\ UNCHANGED <<frame, ran>>
       ELSE /\ pc' = "parse"
            /\ frame' = [i |-> 0, unmatched |-> 0]
            /\ ran' = Append(ran, "parse")
            /\ UNCHANGED <<stderr, exitStatus>>
    /\ UNCHANGED <<scenario, cap, stdin, stat, tokens, ast, bytecode, optimized,
                   data, stdout>>

(***************************************************************************)
(* parse                                                                   *)
(***************************************************************************)
\* the opcode parse's switch stores for a token
OpcodeOf(tok) ==
    CASE tok = CH_ADD -> OP_ADD
      [] tok = CH_SUB -> OP_SUB
      [] tok = CH_INC -> OP_INC
      [] tok = CH_DEC -> OP_DEC
      [] tok = CH_PUT -> OP_PUT
      [] tok = CH_GET -> OP_GET
      [] tok = CH_JMP -> OP_JMP
      [] tok = CH_JNE -> OP_JNE

\* unmatched++ on '[', unmatched-- on ']'
Unmatched(unmatched, tok) ==
    IF tok = CH_JMP THEN unmatched + 1
    ELSE IF tok = CH_JNE THEN unmatched - 1
    ELSE unmatched

\* if (unmatched != 0) return FAILURE;
ParseRejects(unmatched) == unmatched # 0

\* one test of parse's for loop: an iteration, or the return
ParseLoop ==
    /\ pc = "parse"
    /\ LET tok == tokens[frame.i + 1]
       IN  IF tok # NUL
           THEN /\ ast' = Store(ast, frame.i, OpcodeOf(tok))
                /\ frame' = [i |-> frame.i + 1,
                             unmatched |-> Unmatched(frame.unmatched, tok)]
                /\ UNCHANGED <<stat, pc>>
           ELSE /\ IF ParseRejects(frame.unmatched)
                   THEN stat' = FAILURE /\ ast' = ast
                   ELSE stat' = SUCCESS /\ ast' = Store(ast, frame.i, NUM_OPS)
                /\ pc' = "parse_ret"
                /\ UNCHANGED frame
    /\ UNCHANGED <<scenario, cap, stdin, tokens, bytecode, optimized, data,
                   stdout, stderr, exitStatus, ran>>

\* if (stat != SUCCESS) quit(...); stat = compile(ast, bytecode);
CheckParse ==
    /\ pc = "parse_ret"
    /\ IF Failed(stat)
       THEN quit(QuitText("parse")) /\ UNCHANGED <<frame, ran>>
       ELSE /\ pc' = "compile"
            /\ frame' = [i |-> 0]
            /\ ran' = Append(ran, "compile")
            /\ UNCHANGED <<stderr, exitStatus>>
    /\ UNCHANGED <<scenario, cap, stdin, stat, tokens, ast, bytecode, optimized,
                   data, stdout>>

(***************************************************************************)
(* compile                                                                 *)
(***************************************************************************)
\* bytecode[i] = (Instruction) { ast[i], 1 };
Lower(op) == Instr(op, 1)

\* one test of compile's for loop: an iteration, or the return
CompileLoop ==
    /\ pc = "compile"
    /\ LET op == ast[frame.i + 1]
       IN  IF op # NUM_OPS
           THEN /\ bytecode' = Store(bytecode, frame.i, Lower(op))
                /\ frame' = [i |-> frame.i + 1]
                /\ UNCHANGED <<stat, pc>>
           ELSE /\ bytecode' = Store(bytecode, frame.i, Instr(NUM_OPS, 0))
                /\ stat' = SUCCESS
                /\ pc' = "compile_ret"
                /\ UNCHANGED frame
    /\ UNCHANGED <<scenario, cap, stdin, tokens, ast, optimized, data, stdout,
                   stderr, exitStatus, ran>>

\* if (stat != SUCCESS) quit(...); stat = optimize(bytecode, optimized);
CheckCompile ==
    /\ pc = "compile_ret"
    /\ IF Failed(stat)
       THEN quit(QuitText("compile")) /\ UNCHANGED <<frame, ran>>
       ELSE /\ pc' = "optimize"
            /\ frame' = [i |-> 0, cur |-> 0, loop_stack |-> <<>>]
            /\ ran' = Append(ran, "optimize")
            /\ UNCHANGED <<stderr, exitStatus>>
    /\ UNCHANGED <<scenario, cap, stdin, stat, tokens, ast, bytecode, optimized,
                   data, stdout>>

(***************************************************************************)
(* optimize                                                                *)
(***************************************************************************)
\* jump arguments that point just past the partner: what C5 and C6 must
\* tell from the arguments optimize stores
JmpTargetPastLoop(cur, hd) == cur + 1

JneTargetPastOpen(cur, hd) == hd + 1

\* out[loop_stack->hd].arg = cur : the argument the pending OP_JMP gets
JmpTarget(cur, hd) == cur

\* inst.arg = loop_stack->hd : the argument the OP_JNE gets
JneTarget(cur, hd) == hd

\* bcode[j].op == inst.op, the test of the folding loop
SameOp(next, inst) == next.op = inst.op

\* a fold that drops what it folds: what C4 must tell from inst.arg++
FoldedForgetsCount(inst) == inst

\* inst.arg++
Folded(inst) == Instr(inst.op, inst.arg + 1)

\* One test of optimize's outer for loop: the return, an OP_JMP, an OP_JNE,
\* or the entry of the folding loop.  loop_stack is the linked list of the
\* pending OP_JMP positions, head first; an OP_JNE met while loop_stack is
\* NULL dereferences the null pointer, so what follows is undefined.
OptimizeLoop ==
    /\ pc = "optimize"
    /\ LET inst == bytecode[frame.i + 1]
           cur == frame.cur
       IN  IF inst.op = NUM_OPS
           THEN /\ optimized' = Store(optimized, cur, Instr(NUM_OPS, 0))
                /\ stat' = SUCCESS
                /\ pc' = "optimize_ret"
                /\ UNCHANGED frame
           ELSE IF inst.op = OP_JMP
           THEN /\ optimized' = Store(optimized, cur, inst)
                /\ frame' = [i |-> frame.i + 1, cur |-> cur + 1,
                             loop_stack |-> <<cur>> \o frame.loop_stack]
                /\ UNCHANGED <<stat, pc>>
           ELSE IF inst.op = OP_JNE
           THEN IF frame.loop_stack = <<>>
                THEN pc' = "undefined" /\ UNCHANGED <<optimized, frame, stat>>
                ELSE LET hd == Head(frame.loop_stack)
                     IN  /\ optimized' =
                              Store([optimized EXCEPT
                                        ![hd + 1].arg = JmpTarget(cur, hd)],
                                    cur, Instr(inst.op, JneTarget(cur, hd)))
                         /\ frame' = [i |-> frame.i + 1, cur |-> cur + 1,
                                      loop_stack |-> Tail(frame.loop_stack)]
                         /\ UNCHANGED <<stat, pc>>
           ELSE /\ frame' = [i |-> frame.i, cur |-> cur,
                             loop_stack |-> frame.loop_stack,
                             inst |-> inst, j |-> frame.i + 1]
                /\ pc' = "fold"
                /\ UNCHANGED <<optimized, stat>>
    /\ UNCHANGED <<scenario, cap, stdin, tokens, ast, bytecode, data, stdout,
                   stderr, exitStatus, ran>>

\* one test of the folding loop
\*   for (int j = i + 1; bcode[j].op == inst.op; j++) { inst.arg++; i = j; }
\* an iteration, or its exit: out[cur] = inst; cur++; and the outer i++
FoldLoop ==
    /\ pc = "fold"
    /\ IF SameOp(bytecode[frame.j + 1], frame.inst)
       THEN /\ frame' = [frame EXCEPT !.inst = Folded(@), !.i = frame.j,
                                      !.j = @ + 1]
            /\ UNCHANGED <<optimized, pc>>
       ELSE /\ optimized' = Store(optimized, frame.cur, frame.inst)
            /\ frame' = [i |-> frame.i + 1, cur |-> frame.cur + 1,
                         loop_stack |-> frame.loop_stack]
            /\ pc' = "optimize"
    /\ UNCHANGED <<scenario, cap, stdin, stat, tokens, ast, bytecode, data,
                   stdout, stderr, exitStatus, ran>>

\* if (stat != SUCCESS) quit(...);
CheckOptimize ==
    /\ pc = "optimize_ret"
    /\ IF Failed(stat)
       THEN quit(QuitText("optimize"))
       ELSE pc' = "clearerr" /\ UNCHANGED <<stderr, exitStatus>>
    /\ UNCHANGED <<scenario, cap, stdin, frame, stat, tokens, ast, bytecode,
                   optimized, data, stdout, ran>>

\* clearerr(stdin);
Clearerr ==
    /\ pc = "clearerr"
    /\ stdin' = clearerr(stdin)
    /\ pc' = "run_call"
    /\ UNCHANGED <<scenario, cap, frame, stat, tokens, ast, bytecode, optimized,
                   data, stdout, stderr, exitStatus, ran>>

(***************************************************************************)
(* run                                                                     *)
(***************************************************************************)
\* an addition that saturates at CHAR_MAX: what C10 must tell from the
\* wrapping addition
AddCellSaturating(c, arg) == IF c + arg > 127 THEN 127 ELSE c + arg

\* data[dp] = data[dp] + program[ip].arg
AddCell(c, arg) == ToChar(c + arg)

\* data[dp] = data[dp] - program[ip].arg
SubCell(c, arg) == ToChar(c - arg)

\* a move that ignores the folded count: what C17 must tell from the move
IncPointerByOne(p, arg) == p + 1

\* dp = dp + program[ip].arg
IncPointer(p, arg) == p + arg

\* a move that stops at the first cell: what C16 must tell from the move
DecPointerClamped(p, arg) == IF p - arg < 0 THEN 0 ELSE p - arg

\* dp = dp - program[ip].arg
DecPointer(p, arg) == p - arg

\* jump tests turned round: what C13 and C14 must tell from the tests of
\* run
JmpTakenNonZero(c) == c # 0

JneTakenZero(c) == c = 0

\* OP_JMP: if (data[dp] == 0)
JmpTaken(c) == c = 0

\* OP_JNE: if (data[dp] != 0)
JneTaken(c) == c # 0

\* an output that writes the cell once: what C15 must tell from the loop
PutCharsOnce(sink, c, arg) == Append(sink, ToByte(c))

\* for (i < arg) putchar(data[dp]);
PutChars(sink, c, arg) ==
    sink \o [i \in 1..(IF arg > 0 THEN arg ELSE 0) |-> ToByte(c)]

\* a loop test that stops after one read: what C11 must tell from the test
MoreReadsOnce(i, arg) == i < 1

\* i < program[ip].arg, the test of OP_GET's loop
MoreReads(i, arg) == i < arg

\* a read that leaves the cell alone at the end of the stream: what C20
\* must tell from the store of getchar's result
ReadCellKeptAtEof(old, c) == IF c = EOF THEN old ELSE ToChar(c)

\* data[dp] = getchar() : the cell after the read that returned c
ReadCell(old, c) == ToChar(c)

\* the cases that read or write data[dp]
TouchesCell(op) == op \in {OP_ADD, OP_SUB, OP_PUT, OP_GET, OP_JMP, OP_JNE}

\* a cell of data[]
InTape(capacity, p) == p >= 0 /\ p < capacity

\* a slot of program[] that has been written
InProgram(program, at) == at >= 0 /\ at < Len(program)

\* a taken jump that lands one slot further: what C18 must tell from the
\* ip the machine computes
NextIpPastPartner(inst, c, at) ==
    IF inst.op = OP_JMP /\ c = 0 THEN inst.arg + 2
    ELSE IF inst.op = OP_JNE /\ c # 0 THEN inst.arg + 2
    ELSE at + 1

\* ip after the switch and the ip++ that follows it
NextIp(inst, c, at) ==
    IF inst.op = OP_JMP /\ JmpTaken(c) THEN inst.arg + 1
    ELSE IF inst.op = OP_JNE /\ JneTaken(c) THEN inst.arg + 1
    ELSE at + 1

\* run(optimized) is entered: ip = 0, dp = 0 and the tape is zeroed
RunCall ==
    /\ pc = "run_call"
    /\ frame' = [ip |-> 0, dp |-> 0]
    /\ data' = [i \in 1..cap |-> 0]
    /\ pc' = "run"
    /\ ran' = Append(ran, "run")
    /\ UNCHANGED <<scenario, cap, stdin, stat, tokens, ast, bytecode, optimized,
                   stdout, stderr, exitStatus>>

\* while (program[ip].op != NUM_OPS)
AtEnd ==
    InProgram(optimized, frame.ip) /\ optimized[frame.ip + 1].op = NUM_OPS

\* One iteration of run's while loop; OP_GET enters its getchar loop.
\* Reading a slot of program[] that was never written, or a cell outside
\* data[], is undefined behaviour.
RunStep ==
    /\ pc = "run"
    /\ ~AtEnd
    /\ IF ~InProgram(optimized, frame.ip)
       THEN pc' = "undefined" /\ UNCHANGED <<frame, data, stdout>>
       ELSE LET inst == optimized[frame.ip + 1]
                dp == frame.dp
            IN  IF TouchesCell(inst.op) /\ ~InTape(cap, dp)
                THEN pc' = "undefined" /\ UNCHANGED <<frame, data, stdout>>
                ELSE LET c == IF TouchesCell(inst.op) THEN data[dp + 1] ELSE 0
                     IN  CASE inst.op = OP_ADD ->
                                /\ data' = [data EXCEPT ![dp + 1] = AddCell(c, inst.arg)]
                                /\ frame' = [frame EXCEPT !.ip = @ + 1]
                                /\ UNCHANGED <<pc, stdout>>
                           [] inst.op = OP_SUB ->
                                /\ data' = [data EXCEPT ![dp + 1] = SubCell(c, inst.arg)]
                                /\ frame' = [frame EXCEPT !.ip = @ + 1]
                                /\ UNCHANGED <<pc, stdout>>
                           [] inst.op = OP_INC ->
                                /\ frame' = [ip |-> frame.ip + 1,
                                             dp |-> IncPointer(dp, inst.arg)]
                                /\ UNCHANGED <<pc, data, stdout>>
                           [] inst.op = OP_DEC ->
                                /\ frame' = [ip |-> frame.ip + 1,
                                             dp |-> DecPointer(dp, inst.arg)]
                                /\ UNCHANGED <<pc, data, stdout>>
                           [] inst.op = OP_PUT ->
                                /\ Len(stdout) + inst.arg <= MaxOut
                                /\ stdout' = PutChars(stdout, c, inst.arg)
                                /\ frame' = [frame EXCEPT !.ip = @ + 1]
                                /\ UNCHANGED <<pc, data>>
                           [] inst.op = OP_GET ->
                                /\ frame' = [ip |-> frame.ip, dp |-> dp, i |-> 0]
                                /\ pc' = "getchar"
                                /\ UNCHANGED <<data, stdout>>
                           [] inst.op \in {OP_JMP, OP_JNE} ->
                                /\ frame' = [frame EXCEPT
                                                !.ip = NextIp(inst, c, frame.ip)]
                                /\ UNCHANGED <<pc, data, stdout>>
    /\ UNCHANGED <<scenario, cap, stdin, stat, tokens, ast, bytecode, optimized,
                   stderr, exitStatus, ran>>

\* one test of OP_GET's loop
\*   for (int i = 0; i < program[ip].arg; i++) data[dp] = getchar();
\* an iteration, or its exit and the ip++ that follows
GetChar ==
    /\ pc = "getchar"
    /\ IF MoreReads(frame.i, optimized[frame.ip + 1].arg)
       THEN /\ \E r \in getc(scenario, stdin) :
                  /\ stdin' = r.f
                  /\ data' = [data EXCEPT ![frame.dp + 1] = ReadCell(@, r.c)]
            /\ frame' = [frame EXCEPT !.i = @ + 1]
            /\ UNCHANGED pc
       ELSE /\ frame' = [ip |-> frame.ip + 1, dp |-> frame.dp]
            /\ pc' = "run"
            /\ UNCHANGED <<stdin, data>>
    /\ UNCHANGED <<scenario, cap, stat, tokens, ast, bytecode, optimized, stdout,
                   stderr, exitStatus, ran>>

\* run() returns and main() returns 0
Return ==
    /\ pc = "run"
    /\ AtEnd
    /\ pc' = "exited"
    /\ exitStatus' = <<0>>
    /\ UNCHANGED <<scenario, cap, stdin, frame, stat, tokens, ast, bytecode,
                   optimized, data, stdout, stderr, ran>>

(***************************************************************************)
(* The process                                                             *)
(***************************************************************************)
Init ==
    /\ scenario \in Scenarios
    /\ cap = Capacity(scenario)
    /\ stdin = [data |-> <<>>, eof |-> FALSE]
    /\ pc = "lex_call"
    /\ frame = [count |-> 0, cur |-> 0]
    /\ stat = SUCCESS
    /\ tokens = <<>>
    /\ ast = <<>>
    /\ bytecode = <<>>
    /\ optimized = <<>>
    /\ data = <<>>
    /\ stdout = <<>>
    /\ stderr = <<>>
    /\ exitStatus = <<>>
    /\ ran = <<>>

Next ==
    \/ LexCall \/ LexLoop \/ CheckLex
    \/ ParseLoop \/ CheckParse
    \/ CompileLoop \/ CheckCompile
    \/ OptimizeLoop \/ FoldLoop \/ CheckOptimize
    \/ Clearerr \/ RunCall \/ RunStep \/ GetChar \/ Return

Spec == Init /\ [][Next]_vars

(***************************************************************************)
(* Vocabulary of the properties                                            *)
(***************************************************************************)
Front(s) == SubSeq(s, 1, Len(s) - 1)

\* the items of h before its first end-of-stream condition
SourceText(h) ==
    IF EOF \in Range(h)
    THEN SubSeq(h, 1, (CHOOSE i \in 1..Len(h) :
                          h[i] = EOF /\ \A k \in 1..(i - 1) : h[k] # EOF) - 1)
    ELSE h

CommandsOf(h) == SelectSeq(h, LAMBDA x : x \in Commands)

\* the running depth after the first k tokens of s: +1 on '[', -1 on ']'
Depth(s, k) ==
    Cardinality({i \in 1..k : s[i] = CH_JMP})
        - Cardinality({i \in 1..k : s[i] = CH_JNE})

\* balanced in the strict sense
Balanced(s) ==
    /\ \A k \in 0..Len(s) : Depth(s, k) >= 0
    /\ Depth(s, Len(s)) = 0

\* parse has returned to main()
ParseReturned == pc = "parse_ret"

\* lex has returned to main()
LexReturned == pc = "lex_ret"

(***************************************************************************)
(* C1                                                                      *)
(***************************************************************************)
\* C1 (as claimed): whenever parse returns, it returns SUCCESS if and only
\* if the token sequence is balanced in the strict sense (the running depth
\* is never negative at any prefix and is zero at the end).
C1_ParseSucceedsIffBalanced ==
    ParseReturned => ((stat = SUCCESS) <=> Balanced(Front(tokens)))

(***************************************************************************)
(* C2                                                                      *)
(***************************************************************************)
\* C2 (as claimed): the outcome of lex depends only on the command
\* characters of the stream.  Whenever lex returns: it returns SUCCESS only
\* at the end of the stream, with exactly the command characters of the
\* stream as tokens; and it returns FAILURE if and only if the stream it
\* has read holds more than capacity - 2 command characters (every stream
\* may end where lex stopped reading, so a FAILURE after at most
\* capacity - 2 commands is a FAILURE on a stream the claim says lexes).
C2_LexDependsOnlyOnCommands ==
    LexReturned =>
        LET text == CommandsOf(SourceText(stdin.data))
        IN  /\ (stat = SUCCESS) =>
                   /\ stdin.eof
                   /\ tokens = text \o <<NUL>>
            /\ (stat = FAILURE) <=> (Len(text) > cap - 2)

(***************************************************************************)
(* C3                                                                      *)
(***************************************************************************)
\* the stream read so far starts with n command characters
StartsWithCommands(n) ==
    /\ Len(stdin.data) >= n
    /\ \A i \in 1..n : stdin.data[i] \in Commands

\* the stream was exactly n command characters and then ended
ExactlyCommands(n) ==
    /\ StartsWithCommands(n)
    /\ stdin.eof
    /\ stdin.data \in {SubSeq(stdin.data, 1, n),
                       SubSeq(stdin.data, 1, n) \o <<EOF>>}

CapacityExceededText ==
    [text |-> "ERROR: Program exceeds available memory", newlines |-> 1]

\* C3: a source of exactly capacity - 2 command characters lexes
\* successfully, with all of them as tokens, and parses successfully when
\* its brackets are balanced; a source that starts with capacity - 1
\* command characters makes lex return FAILURE, no later stage runs, and
\* the process exits with status 1 and the capacity message.
C3_CapacityBoundary ==
    /\ (LexReturned /\ ExactlyCommands(cap - 2)) =>
           /\ stat = SUCCESS
           /\ tokens = SubSeq(stdin.data, 1, cap - 2) \o <<NUL>>
    /\ (ParseReturned /\ ExactlyCommands(cap - 2)
            /\ Balanced(SubSeq(stdin.data, 1, cap - 2))) => stat = SUCCESS
    /\ StartsWithCommands(cap - 1) =>
           /\ ran = <<"lex">>
           /\ pc \in {"lex", "lex_ret", "exited"}
           /\ (pc = "lex_ret") => (stat = FAILURE)
           /\ (pc = "exited") =>
                  exitStatus = <<1>> /\ stderr = <<CapacityExceededText>>

\* C3 witness: parse has accepted a source of exactly capacity - 2 commands
C3_Witness ==
    /\ ParseReturned
    /\ ExactlyCommands(cap - 2)
    /\ stat = SUCCESS
    /\ Len(tokens) = cap - 1

(***************************************************************************)
(* C4                                                                      *)
(***************************************************************************)
\* optimize has returned to main()
OptimizeReturned == pc = "optimize_ret"

IsJump(op) == op \in {OP_JMP, OP_JNE}

\* the opcodes an instruction stands for: a jump for itself, any other
\* instruction for arg unit instructions of its opcode
Width(inst) == IF IsJump(inst.op) THEN 1 ELSE inst.arg

RECURSIVE Unfold(_)
Unfold(prog) ==
    IF prog = <<>> THEN <<>>
    ELSE Repeat(Head(prog).op, Width(Head(prog))) \o Unfold(Tail(prog))

OpsOf(prog) == [i \in 1..Len(prog) |-> prog[i].op]

\* C4: when optimize returns, no two adjacent instructions of its output
\* have the same non-jump opcode, every non-jump instruction has an
\* argument of at least 1, and replacing each non-jump instruction by
\* as many unit instructions as its argument gives back the lowered
\* sequence, opcode by opcode: each argument is the length of the run of
\* unit instructions it replaced, runs in the same order.
C4_FoldingInvariant ==
    OptimizeReturned =>
        LET out == Front(optimized)
        IN  /\ \A p \in 1..(Len(out) - 1) :
                   out[p].op = out[p + 1].op => IsJump(out[p].op)
            /\ \A p \in 1..Len(out) : ~IsJump(out[p].op) => out[p].arg >= 1
            /\ Unfold(out) = OpsOf(Front(bytecode))
            /\ optimized[Len(optimized)] = Instr(NUM_OPS, 0)

\* C4 witness: optimize has returned a program that holds a folded run
\* next to a jump
C4_Witness ==
    /\ OptimizeReturned
    /\ \E p \in 1..(Len(optimized) - 1) :
           /\ optimized[p].op = OP_ADD
           /\ optimized[p].arg >= 2
           /\ optimized[p + 1].op = OP_JMP

(***************************************************************************)
(* C5                                                                      *)
(***************************************************************************)
\* the positions (C indices) of the brackets of ops, a sequence of opcodes
JumpPositions(ops) == {i \in 0..(Len(ops) - 1) : IsJump(ops[i + 1])}

\* the k-th smallest element of the set P of integers
Nth(P, k) == CHOOSE x \in P : Cardinality({y \in P : y <= x}) = k

\* the running depth of the opcode sequence after the position i
OpDepth(ops, i) ==
    Cardinality({k \in 0..i : ops[k + 1] = OP_JMP})
        - Cardinality({k \in 0..i : ops[k + 1] = OP_JNE})

\* the position of the OP_JNE that closes the OP_JMP at a, by nesting: the
\* first later position at which the depth is back to what it was before a
MatchOf(ops, a) ==
    CHOOSE b \in (a + 1)..(Len(ops) - 1) :
        /\ OpDepth(ops, b) = OpDepth(ops, a) - 1
        /\ \A k \in (a + 1)..(b - 1) : OpDepth(ops, k) >= OpDepth(ops, a)

\* C5: when optimize returns, every OP_JMP at an output position p has an
\* argument q > p, the instruction at q is an OP_JNE and its argument is p;
\* every OP_JNE at q has an argument p < q that is an OP_JMP whose argument
\* is q; and the k-th bracket of the source is paired with its l-th bracket
\* by proper nesting exactly when the k-th and l-th jumps of the output
\* point at each other.
C5_JumpPairs ==
    OptimizeReturned =>
        LET out == Front(optimized)
            src == Front(ast)
            outJumps == JumpPositions(OpsOf(out))
            srcJumps == JumpPositions(src)
        IN  /\ \A p \in 0..(Len(out) - 1) :
                   out[p + 1].op = OP_JMP =>
                       LET q == out[p + 1].arg
                       IN  /\ q > p /\ q < Len(out)
                           /\ out[q + 1] = Instr(OP_JNE, p)
            /\ \A q \in 0..(Len(out) - 1) :
                   out[q + 1].op = OP_JNE =>
                       LET p == out[q + 1].arg
                       IN  /\ p >= 0 /\ p < q
                           /\ out[p + 1] = Instr(OP_JMP, q)
            /\ Cardinality(outJumps) = Cardinality(srcJumps)
            /\ \A k \in 1..Cardinality(srcJumps) :
                   LET a == Nth(srcJumps, k)
                   IN  src[a + 1] = OP_JMP =>
                           \E l \in 1..Cardinality(srcJumps) :
                               /\ Nth(srcJumps, l) = MatchOf(src, a)
                               /\ out[Nth(outJumps, k) + 1].arg = Nth(outJumps, l)
                               /\ out[Nth(outJumps, l) + 1].arg = Nth(outJumps, k)

\* C5 witness: optimize has returned a program with a loop nested in a
\* loop that follows a folded run
C5_Witness ==
    /\ OptimizeReturned
    /\ optimized[1].op = OP_ADD
    /\ optimized[1].arg >= 2
    /\ \E p, r \in 1..Len(optimized) :
           /\ p < r
           /\ optimized[p].op = OP_JMP
           /\ optimized[r].op = OP_JMP
           /\ optimized[r].arg < optimized[p].arg

(***************************************************************************)
(* C6                                                                      *)
(***************************************************************************)
\* The process is the only thread and never waits once its input has been
\* delivered: it keeps taking its next step until it exits.
FairSpec == Spec /\ WF_vars(Next)

\* the process has exited
Exited == pc = "exited"

\* C6: on the source "++++++++[>++++++++<-]>." (as it is, or with one
\* comment byte in it) nothing is written to stderr, nothing undefined
\* happens, stdout never holds anything but the one byte 64, and the run
\* ends: the process exits with status 0, the machine at the End
\* instruction, having written exactly the byte 64.
C6_LoopWrites64 ==
    /\ [](scenario = "loop" =>
            /\ pc # "undefined"
            /\ stderr = <<>>
            /\ stdout \in {<<>>, <<64>>}
            /\ Exited => /\ exitStatus = <<0>>
                         /\ stdout = <<64>>
                         /\ AtEnd)
    /\ (scenario = "loop") ~> (scenario = "loop" /\ Exited)

\* C6 witness: the run of the source exactly as given has ended, having
\* gone 8 times round the loop
C6_Witness ==
    /\ scenario = "loop"
    /\ stdin.data = LoopSource \o <<EOF>>
    /\ Exited
    /\ stdout = <<64>>
    /\ data[1] = 0
    /\ data[2] = 64
    /\ frame.dp = 1

(***************************************************************************)
(* C7                                                                      *)
(***************************************************************************)
\* this step is a getchar() of an Input instruction that is delivered a
\* byte of the stream
InputDelivered ==
    /\ pc = "getchar"
    /\ stdin'.data # stdin.data
    /\ stdin'.data[Len(stdin'.data)] # EOF

\* C7 (as claimed): no byte that arrives before the first end-of-stream
\* condition is delivered to an Input instruction, so whenever an Input
\* instruction is delivered a byte, an end-of-stream condition precedes that
\* byte in the stream; and the stream ",." <end-of-stream> 'A' makes the
\* process write exactly the byte 65.
C7_TwoPhaseInput ==
    /\ [][InputDelivered => EOF \in Range(stdin.data)]_vars
    /\ [](stdin.data = <<CH_GET, CH_PUT, EOF, 65>> /\ Exited
            => stdout = <<65>> /\ exitStatus = <<0>>)

(***************************************************************************)
(* C8                                                                      *)
(***************************************************************************)
Stages == <<"lex", "parse", "compile", "optimize">>

\* main() is at the check of the stat a stage has returned
AtCheck == pc \in {"lex_ret", "parse_ret", "compile_ret", "optimize_ret"}

SyntaxErrorText ==
    [text |-> "SYNTAX ERROR: Unmatched '[' or ']'", newlines |-> 1]

\* C8: the step main() takes on a stage's failure outcome is the exit:
\* status 1 and that stage's one message, no other stage and not the
\* machine having run, nothing on stdout.  A process that has exited with
\* status 1 has written nothing to stdout and exactly one message, that of
\* the last stage it called, which failed, and it never entered run; a
\* message is written only on such an exit.  Status 0 is reached only with
\* all four stages and run called in order, nothing on stderr and the
\* machine at the End instruction.  The source "[" alone ends with status
\* 1, the syntax error message with one newline, and no output.
C8_FailFast ==
    /\ [][(AtCheck /\ Failed(stat)) =>
             /\ pc' = "exited"
             /\ exitStatus' = <<1>>
             /\ stderr' = <<QuitText(ran[Len(ran)])>>
             /\ ran' = ran
             /\ stdout' = <<>>]_vars
    /\ [](exitStatus = <<1>> =>
             /\ Exited
             /\ Failed(stat)
             /\ stdout = <<>>
             /\ data = <<>>
             /\ \E n \in 1..Len(Stages) :
                    /\ ran = SubSeq(Stages, 1, n)
                    /\ stderr = <<QuitText(Stages[n])>>)
    /\ [](stderr # <<>> => exitStatus = <<1>>)
    /\ [](exitStatus = <<0>> =>
             /\ Exited
             /\ ran = Stages \o <<"run">>
             /\ stderr = <<>>
             /\ AtEnd)
    /\ [](exitStatus \in {<<>>, <<0>>, <<1>>} /\ (Exited <=> exitStatus # <<>>))
    /\ []((SourceText(stdin.data) = <<CH_JMP>> /\ Exited) =>
             /\ exitStatus = <<1>>
             /\ stderr = <<SyntaxErrorText>>
             /\ stdout = <<>>)

\* C8 witness: the source "[" alone has ended in the syntax error
C8_Witness ==
    /\ stdin.data = <<CH_JMP, EOF>>
    /\ Exited
    /\ exitStatus = <<1>>
    /\ stderr = <<SyntaxErrorText>>
    /\ ran = <<"lex", "parse">>

(***************************************************************************)
(* C9                                                                      *)
(***************************************************************************)
\* the message the specification gives for the failure of a stage
SpecifiedText(stage) ==
    CASE stage = "lex" -> "ERROR: Program exceeds available memory"
      [] stage = "parse" -> "SYNTAX ERROR: Unmatched '[' or ']'"
      [] stage = "compile" -> "ERROR: Compilation failed"
      [] stage = "optimize" -> "ERROR: Optimization failed"

\* the stage whose stat main() is checking
CheckedStage ==
    CASE pc = "lex_ret" -> "lex"
      [] pc = "parse_ret" -> "parse"
      [] pc = "compile_ret" -> "compile"
      [] pc = "optimize_ret" -> "optimize"

\* C9 (as claimed): for each of the four stages, at main()'s check of the
\* outcome the stage has returned, the text main() writes to stderr for a
\* failure outcome is the specified message ended by exactly one newline;
\* and whatever has been written to stderr is such a text.
C9_MessagesEndInOneNewline ==
    /\ AtCheck =>
           QuitText(CheckedStage) =
               [text |-> SpecifiedText(CheckedStage), newlines |-> 1]
    /\ \A k \in 1..Len(stderr) :
           \E n \in 1..Len(Stages) :
               stderr[k] = [text |-> SpecifiedText(Stages[n]), newlines |-> 1]

(***************************************************************************)
(* C10                                                                     *)
(***************************************************************************)
\* the machine is about to execute an instruction with opcode op on a cell
\* of the tape
Executing(op) ==
    /\ pc = "run"
    /\ InProgram(optimized, frame.ip)
    /\ optimized[frame.ip + 1].op = op
    /\ InTape(cap, frame.dp)

\* the byte value, 0..255, of the current cell
Cell == ToByte(data[frame.dp + 1])

Arg == optimized[frame.ip + 1].arg

\* the number of '+' and '-' characters of a source text
CountOf(text) ==
    Cardinality({i \in 1..Len(text) : text[i] \in {CH_ADD, CH_SUB}})

\* where n increments, or decrements, take a cell that holds v
ResultOf(text, v) ==
    IF CH_ADD \in Range(text)
    THEN (v + CountOf(text)) % 256
    ELSE (v - CountOf(text)) % 256

\* the "arith" stream read so far: whether its source starts with ',', the
\* number of its '+' or '-' characters, the byte its ',' is given (0 on the
\* zeroed tape) and the value the cell must end at
ArithReads == stdin.data[1] = CH_GET

ArithCount == CountOf(SourceText(stdin.data))

ArithStart == IF ArithReads THEN stdin.data[Len(stdin.data)] ELSE 0

ArithResult == ResultOf(SourceText(stdin.data), ArithStart)

\* C10: every Increment(n) step takes the current cell from the byte value
\* v to (v + n) mod 256 and every Decrement(n) step to (v - n) mod 256,
\* changing no other cell; a jump instruction takes its branch on exactly
\* the zero test of that byte value; and a cell that starts at v (0, or any
\* byte read by ',') and gets n increments (decrements) folded into one
\* instruction, n up to 257, ends at (v + n) mod 256 ((v - n) mod 256),
\* with "[>]" after it moving dp exactly when that value is not zero.
C10_Wraparound ==
    /\ [][Executing(OP_ADD) =>
             /\ Arg >= 1
             /\ Cell' = (Cell + Arg) % 256
             /\ \A k \in 1..cap : k # frame.dp + 1 => data'[k] = data[k]]_vars
    /\ [][Executing(OP_SUB) =>
             /\ Arg >= 1
             /\ ToByte(data'[frame.dp + 1]) = (Cell - Arg) % 256
             /\ \A k \in 1..cap : k # frame.dp + 1 => data'[k] = data[k]]_vars
    /\ [][Executing(OP_JMP) =>
             frame'.ip = (IF Cell = 0 THEN Arg + 1 ELSE frame.ip + 1)]_vars
    /\ [][Executing(OP_JNE) =>
             frame'.ip = (IF Cell # 0 THEN Arg + 1 ELSE frame.ip + 1)]_vars
    /\ [](scenario = "arith" /\ Exited =>
             /\ exitStatus = <<0>>
             /\ ToByte(data[1]) = ArithResult
             /\ frame.dp = (IF ToByte(data[1]) = 0 THEN 0 ELSE 1)
             /\ \E p \in 1..2 :
                    /\ optimized[p].op \in {OP_ADD, OP_SUB}
                    /\ optimized[p].arg = ArithCount)

\* C10 witness: 256 increments of a zero cell, folded into one instruction,
\* have left it at 0, and the loop after them was skipped
C10_Witness ==
    /\ scenario = "arith"
    /\ Exited
    /\ ~ArithReads
    /\ optimized[1] = Instr(OP_ADD, 256)
    /\ data[1] = 0
    /\ frame.dp = 0

(***************************************************************************)
(* C11                                                                     *)
(***************************************************************************)
\* the machine is inside the getchar loop of an Input instruction
Reading == pc = "getchar"

\* the stream can deliver one more item to the next read
ItemPending == ~stdin.eof /\ NextItems(scenario, stdin.data) # {}

\* the items that arrived after the source had ended
RuntimeItems(h) == SubSeq(h, SourceEnd(h) + 1, Len(h))

\* the number of ',' characters of a source text
GetsOf(text) == Cardinality({i \in 1..Len(text) : text[i] = CH_GET})

\* the number of '.' characters of a source text
PutsOf(text) == Cardinality({i \in 1..Len(text) : text[i] = CH_PUT})

\* C11: an Input(n) instruction starts its reads with nothing changed; each
\* of its reads, while fewer than n are done, consumes exactly the next
\* item of the stream (when there is one), puts the byte read in the
\* current cell and changes no other cell, not dp and not the output; the
\* instruction is left after exactly n reads, nothing changed by leaving.
\* On the sources of n times ',' whose n bytes all arrive, the run ends
\* with the cell at the n-th byte, n items consumed past the source, dp at
\* 0 and every other cell 0; it never consumes more than n items.
C11_InputReadsNBytes ==
    /\ [][Executing(OP_GET) =>
             /\ pc' = "getchar"
             /\ frame'.i = 0
             /\ frame'.ip = frame.ip
             /\ frame'.dp = frame.dp
             /\ UNCHANGED <<stdin, data, stdout>>]_vars
    /\ [][(Reading /\ frame.i < Arg) =>
             /\ pc' = "getchar"
             /\ frame' = [frame EXCEPT !.i = frame.i + 1]
             /\ stdout' = stdout
             /\ \A k \in 1..cap : k # frame.dp + 1 => data'[k] = data[k]
             /\ ItemPending =>
                    /\ Len(stdin'.data) = Len(stdin.data) + 1
                    /\ SubSeq(stdin'.data, 1, Len(stdin.data)) = stdin.data
                    /\ stdin'.data[Len(stdin'.data)] # EOF =>
                           Cell' = stdin'.data[Len(stdin'.data)]]_vars
    /\ [][(Reading /\ frame.i >= Arg) =>
             /\ frame.i = Arg
             /\ pc' = "run"
             /\ frame'.ip = frame.ip + 1
             /\ frame'.dp = frame.dp
             /\ UNCHANGED <<stdin, data, stdout>>]_vars
    /\ [](scenario = "input" /\ Exited =>
             LET n == GetsOf(SourceText(stdin.data))
                 got == RuntimeItems(stdin.data)
             IN  /\ Len(got) <= n
                 /\ optimized[1] = Instr(OP_GET, n)
                 /\ (Len(got) = n /\ EOF \notin Range(got)) =>
                        /\ ToByte(data[1]) = got[n]
                        /\ frame.dp = 0
                        /\ \A k \in 2..cap : data[k] = 0
                        /\ stdout =
                              Repeat(got[n], PutsOf(SourceText(stdin.data))))

\* C11 witness: Input(3) has read the bytes 255, 0 and 65 and the run has
\* ended with 65 in the cell
C11_Witness ==
    /\ scenario = "input"
    /\ Exited
    /\ optimized[1] = Instr(OP_GET, 3)
    /\ RuntimeItems(stdin.data) = <<255, 0, 65>>
    /\ data[1] = 65
    /\ stdout = <<65>>

(***************************************************************************)
(* C12                                                                     *)
(***************************************************************************)
\* optimize is at the test of its outer loop, about to process inst
Optimizing(op) == pc = "optimize" /\ bytecode[frame.i + 1].op = op

\* C12 (as claimed): optimize runs only on token sequences that parse has
\* accepted, and whenever it is about to process an OP_JNE its loop_stack
\* holds a pending OP_JMP position to pop; what follows a dereference of the
\* empty loop_stack is never reached.
C12_NoStackUnderflow ==
    /\ Optimizing(OP_JNE) => frame.loop_stack # <<>>
    /\ pc # "undefined" \/ "run" \in Range(ran)

(***************************************************************************)
(* C13, C14                                                                *)
(***************************************************************************)
\* the position of the OP_JMP that the OP_JNE at b closes, by nesting
OpenOf(ops, b) ==
    CHOOSE a \in 0..(b - 1) : ops[a + 1] = OP_JMP /\ MatchOf(ops, a) = b

\* C13: a step of the machine on an OP_JMP leaves the tape, dp, the output
\* and the input stream unchanged; with the current cell at 0 the next
\* instruction the machine reads is the one just after the OP_JNE that
\* closes the loop (by the nesting of the program's brackets), reached in
\* this one step, so that nothing of the loop is executed; with the cell
\* not at 0 it is the instruction just after the OP_JMP.
C13_JumpIfZeroSkips ==
    [][Executing(OP_JMP) =>
          /\ pc' = "run"
          /\ frame'.ip = (IF Cell = 0
                          THEN MatchOf(OpsOf(optimized), frame.ip) + 1
                          ELSE frame.ip + 1)
          /\ frame'.dp = frame.dp
          /\ UNCHANGED <<data, stdout, stdin, optimized>>]_vars

\* C13 witness: on the source "[+]+" the machine has gone from the OP_JMP
\* to the instruction after the loop, the cell still at 0
C13_Witness ==
    /\ pc = "run"
    /\ optimized = <<Instr(OP_JMP, 2), Instr(OP_ADD, 1), Instr(OP_JNE, 0),
                     Instr(OP_ADD, 1), Instr(NUM_OPS, 0)>>
    /\ frame.ip = 3
    /\ data[1] = 0

\* C14: a step of the machine on an OP_JNE leaves the tape, dp, the output
\* and the input stream unchanged; with the current cell not at 0 the next
\* instruction the machine reads is the one just after the OP_JMP that
\* opens the loop, the first of the body, reached in this one step without
\* the OP_JMP being executed again; with the cell at 0 it is the
\* instruction just after the OP_JNE.
C14_JumpIfNonZeroReenters ==
    [][Executing(OP_JNE) =>
          /\ pc' = "run"
          /\ frame'.ip = (IF Cell # 0
                          THEN OpenOf(OpsOf(optimized), frame.ip) + 1
                          ELSE frame.ip + 1)
          /\ frame'.dp = frame.dp
          /\ UNCHANGED <<data, stdout, stdin, optimized>>]_vars

\* C14 witness: in the run of "++++++++[>++++++++<-]>." the machine is
\* back at the first instruction of the body after the first turn
C14_Witness ==
    /\ scenario = "loop"
    /\ pc = "run"
    /\ frame.ip = 2
    /\ optimized[2].op = OP_JMP
    /\ data[1] = 7
    /\ data[2] = 8

About(op) ==
    /\ pc = "run"
    /\ InProgram(optimized, frame.ip)
    /\ optimized[frame.ip + 1].op = op

\* C16: a step of the machine on MovePointerRight(n) sets dp to dp + n and
\* one on MovePointerLeft(n) to dp - n, whatever the result (below 0, or
\* capacity and above), changes nothing else and goes on to the next
\* instruction; a program whose first instruction is MovePointerLeft(1) is
\* at its second instruction with dp = -1.
C16_PointerMoves ==
    /\ [][About(OP_INC) =>
             /\ pc' = "run"
             /\ frame' = [ip |-> frame.ip + 1, dp |-> frame.dp + Arg]
             /\ UNCHANGED <<data, stdout, stdin>>]_vars
    /\ [][About(OP_DEC) =>
             /\ pc' = "run"
             /\ frame' = [ip |-> frame.ip + 1, dp |-> frame.dp - Arg]
             /\ UNCHANGED <<data, stdout, stdin>>]_vars
    /\ []((pc = "run" /\ frame.ip = 1 /\ optimized[1] = Instr(OP_DEC, 1))
             => frame.dp = -1)

\* C16 witness: the run of "<<>" has been at dp = -2 and has ended, with
\* status 0, at dp = -1
C16_Witness ==
    /\ Exited
    /\ exitStatus = <<0>>
    /\ optimized = <<Instr(OP_DEC, 2), Instr(OP_INC, 1), Instr(NUM_OPS, 0)>>
    /\ frame.dp = -1

(***************************************************************************)
(* C17                                                                     *)
(***************************************************************************)
\* The reference machine executes the unfolded program, one instruction per
\* token: its state is [at, dp, tape, out], the tape in byte values, and
\* its loops follow the nesting of the brackets.
RefProgram == OpsOf(bytecode)

\* one step of the reference machine on an instruction that reads no input
RefUnit(ops, r) ==
    LET op == ops[r.at + 1]
        c == r.tape[r.dp + 1]
    IN  CASE op = OP_ADD ->
               [r EXCEPT !.at = @ + 1, !.tape[r.dp + 1] = (c + 1) % 256]
          [] op = OP_SUB ->
               [r EXCEPT !.at = @ + 1, !.tape[r.dp + 1] = (c - 1) % 256]
          [] op = OP_INC -> [r EXCEPT !.at = @ + 1, !.dp = @ + 1]
          [] op = OP_DEC -> [r EXCEPT !.at = @ + 1, !.dp = @ - 1]
          [] op = OP_PUT -> [r EXCEPT !.at = @ + 1, !.out = Append(@, c)]
          [] op = OP_JMP ->
               [r EXCEPT !.at = IF c = 0 THEN MatchOf(ops, r.at) + 1
                                ELSE r.at + 1]
          [] op = OP_JNE ->
               [r EXCEPT !.at = IF c # 0 THEN OpenOf(ops, r.at) + 1
                                ELSE r.at + 1]

\* n steps of the reference machine: the first half of them, then the rest
\* from the state they have reached
RECURSIVE RefSteps(_, _, _)
RefSteps(ops, n, r) ==
    IF n = 0 THEN r
    ELSE IF n = 1 THEN RefUnit(ops, r)
    ELSE LET half == RefSteps(ops, n \div 2, r)
         IN  IF half.at >= 0 THEN RefSteps(ops, n - (n \div 2), half)
             ELSE half

\* the step of the reference machine on ',' when the read gives x (a byte,
\* or EOF)
RefRead(r, x) == [r EXCEPT !.at = @ + 1, !.tape[r.dp + 1] = x % 256]

\* the number of tokens the first ip instructions of prog stand for
RECURSIVE RefAt(_, _)
RefAt(prog, ip) ==
    IF ip = 0 THEN 0 ELSE RefAt(prog, ip - 1) + Width(prog[ip])

\* the state of the reference machine that the state of run() stands for
Abs ==
    [at |-> RefAt(optimized, frame.ip) + (IF Reading THEN frame.i ELSE 0),
     dp |-> frame.dp,
     tape |-> [k \in 1..cap |-> ToByte(data[k])],
     out |-> stdout]

RefInit == [at |-> 0, dp |-> 0, tape |-> [k \in 1..cap |-> 0], out |-> <<>>]

\* what the read of this step was given: the item it consumed, or EOF
ItemRead ==
    IF stdin'.data # stdin.data THEN stdin'.data[Len(stdin'.data)] ELSE EOF

\* C17: run() on the optimizer's output simulates the reference machine on
\* the unfolded program, with the same dp, tape (in byte values), output
\* and input stream at every instruction boundary.  run() starts in the
\* reference's initial state; a step on an instruction of width n is n
\* steps of the reference; entering and leaving Input(n) is no step, and
\* each of its reads is the reference's step on one ',' given the same
\* item; run() is at an instruction exactly when the reference is at a
\* token of the same opcode, so at End exactly when the reference has
\* halted.  (Steps whose cell is outside the tape are not constrained.)
C17_OptimizePreservesSemantics ==
    /\ [][pc = "run_call" => Abs' = RefInit]_vars
    /\ [][(pc = "run" /\ pc' = "run") =>
             Abs' = RefSteps(RefProgram, Width(optimized[frame.ip + 1]), Abs)
         ]_vars
    /\ [][(pc = "run" /\ pc' = "getchar") =>
             Abs' = Abs /\ stdin' = stdin]_vars
    /\ [][(Reading /\ pc' = "getchar") => Abs' = RefRead(Abs, ItemRead)]_vars
    /\ [][(Reading /\ pc' = "run") => Abs' = Abs /\ stdin' = stdin]_vars
    /\ [][(pc = "run" /\ pc' = "exited") => Abs' = Abs /\ stdin' = stdin]_vars
    /\ []((pc = "run" \/ exitStatus = <<0>>) =>
             /\ InProgram(optimized, frame.ip)
             /\ Abs.at < Len(RefProgram)
             /\ RefProgram[Abs.at + 1] = optimized[frame.ip + 1].op
             /\ (exitStatus = <<0>>) => (RefProgram[Abs.at + 1] = NUM_OPS))
    /\ []((Reading /\ frame.i < Arg) => RefProgram[Abs.at + 1] = OP_GET)

\* C17 witness: the run of "+[>>]" has ended at dp = 2, its two '>' folded
C17_Witness ==
    /\ scenario = "source"
    /\ Exited
    /\ exitStatus = <<0>>
    /\ Len(optimized) = 5
    /\ optimized[3] = Instr(OP_INC, 2)
    /\ frame.dp = 2
    /\ data[1] = 1

(***************************************************************************)
(* C18                                                                     *)
(***************************************************************************)
\* the index of the last instruction optimize has written
EndIndex == Len(optimized) - 1

\* C18: once run() has been entered, the program it is given ends with its
\* only End instruction, at the index L, and ip lies in 0..L in every state
\* (so no slot beyond End is ever read); a step of run()'s loop is the
\* return exactly when ip = L, and a process that has exited with status 0
\* has ip = L.
C18_IpSafety ==
    /\ []("run" \in Range(ran) =>
             /\ optimized[EndIndex + 1].op = NUM_OPS
             /\ \A k \in 1..EndIndex : optimized[k].op # NUM_OPS
             /\ frame.ip \in 0..EndIndex)
    /\ [][(pc = "run") => ((pc' = "exited") <=> (frame.ip = EndIndex))]_vars
    /\ []((exitStatus = <<0>>) => frame.ip = EndIndex)

\* C18 witness: the machine has skipped a loop that ends the program and is
\* at End
C18_Witness ==
    /\ pc = "run"
    /\ EndIndex >= 3
    /\ frame.ip = EndIndex
    /\ optimized[EndIndex].op = OP_JNE
    /\ optimized[EndIndex].arg = 0

(***************************************************************************)
(* C19                                                                     *)
(***************************************************************************)
\* C19: the four buffers never hold more than capacity slots, each filled
\* from index 0 upwards without a gap; in every stage the index about to be
\* read or written (lex's count, the i of parse and compile, optimize's i
\* and cur, the j of the folding look-ahead) is below capacity and every
\* read is of a slot that has been written; optimize's cur never passes
\* its i, so that its output is never longer than the lowered sequence.
C19_BufferBounds ==
    /\ Len(tokens) <= cap /\ Len(ast) <= cap
    /\ Len(bytecode) <= cap /\ Len(optimized) <= cap
    /\ Len(optimized) <= Len(bytecode)
    /\ (pc = "lex") =>
           /\ frame.count = Len(tokens)
           /\ frame.count < cap
    /\ (pc = "parse") =>
           /\ frame.i = Len(ast)
           /\ frame.i < Len(tokens)
           /\ frame.i < cap
    /\ (pc = "compile") =>
           /\ frame.i = Len(bytecode)
           /\ frame.i < Len(ast)
           /\ frame.i < cap
    /\ (pc \in {"optimize", "fold"}) =>
           /\ frame.cur = Len(optimized)
           /\ frame.cur <= frame.i
           /\ frame.i < Len(bytecode)
           /\ frame.cur < cap
           /\ \A k \in 1..Len(frame.loop_stack) :
                  frame.loop_stack[k] \in 0..(frame.cur - 1)
    /\ (pc = "fold") => (frame.j > frame.i /\ frame.j < Len(bytecode))

\* C19 witness: optimize has returned on a source that fills the buffers up
\* to the margin, its output shorter than the lowered sequence
C19_Witness ==
    /\ OptimizeReturned
    /\ Len(tokens) = cap - 1
    /\ Len(bytecode) = cap - 1
    /\ Len(optimized) < Len(bytecode)

(***************************************************************************)
(* C20                                                                     *)
(***************************************************************************)
\* C20: a read of an Input instruction that is given no byte (the stream is
\* over, its end-of-file indicator is set, or an end-of-stream condition
\* arrives) is one more read of the instruction: it leaves the current cell
\* at the byte value 255, writes nothing and does not end the process; the
\* machine always gets from the reads of an Input instruction to its next
\* instruction.  The source ",." with no byte after it ends with status 0
\* having written the one byte 255.
C20_InputAtEndOfStream ==
    /\ [][(Reading /\ frame.i < Arg /\ ItemRead = EOF) =>
             /\ Cell' = 255
             /\ pc' = "getchar"
             /\ frame' = [frame EXCEPT !.i = frame.i + 1]
             /\ UNCHANGED <<stdout, stderr, exitStatus>>]_vars
    /\ Reading ~> (pc = "run")
    /\ []((/\ Exited
           /\ exitStatus = <<0>>
           /\ SourceText(stdin.data) = <<CH_GET, CH_PUT>>
           /\ RuntimeItems(stdin.data) \in {<<>>, <<EOF>>})
             => stdout = <<255>>)

\* C20 witness: the run of ",." whose read met the end of the stream has
\* ended with status 0 and the byte 255 written
C20_Witness ==
    /\ Exited
    /\ exitStatus = <<0>>
    /\ stdin.data = <<CH_GET, CH_PUT, EOF, EOF>>
    /\ stdin.eof
    /\ data[1] = -1
    /\ stdout = <<255>>

====
